---- MODULE Spec2Model ----
(***************************************************************************)
(* Model of contrib/libtests/pngfix764.c: the sRGB-space alpha composition *)
(* formula of png_image_read_composite (srgb_compose) and the test driver  *)
(* around it (tests[], run_tests, verify_formula_properties, main).        *)
(*                                                                         *)
(* All arithmetic of srgb_compose is on C unsigned int.  For 8-bit inputs  *)
(* the largest intermediate value is 254 * 255 + 127 = 64897, below 2^16,  *)
(* so no unsigned wrap-around can occur at any width the C standard allows *)
(* and the operators below use plain integer arithmetic.                   *)
(***************************************************************************)
EXTENDS Integers, Sequences, FiniteSets

\* Largest 8-bit sample, the literal 255 of the formula and of the loops.
SampleMax == 255

\* Rounding term added before the division by 255.
RoundTerm == 127

Sample == 0..SampleMax

(***************************************************************************)
(* srgb_compose                                                            *)
(***************************************************************************)

\* Faulty variant: the background term with plain floor division (no +127).
BackgroundTerm_Floor(alpha, background) ==
    ((SampleMax - alpha) * background) \div SampleMax

\* Faulty variant: the rounding term is 254, the quotient is rounded up.
BackgroundTerm_Ceil(alpha, background) ==
    ((SampleMax - alpha) * background + SampleMax - 1) \div SampleMax

\* Faulty variant: the background weight taken as 256 - alpha.
BackgroundTerm_OffByOne(alpha, background) ==
    ((SampleMax + 1 - alpha) * background + RoundTerm) \div SampleMax

\* ((255 - alpha) * background + 127) / 255, C unsigned division.
BackgroundTerm(alpha, background) ==
    ((SampleMax - alpha) * background + RoundTerm) \div SampleMax

\* The value assigned to result on the blend branch, before the clamp.
Raw(foreground, alpha, background) ==
    foreground + BackgroundTerm(alpha, background)

\* Faulty variant: the clamp is missing.
SrgbCompose_NoClamp(foreground, alpha, background) ==
    IF alpha = 0 THEN background
    ELSE IF alpha = SampleMax THEN foreground
    ELSE Raw(foreground, alpha, background)

\* Faulty variant: the sum is truncated to a byte instead of being clamped.
SrgbCompose_Wrap(foreground, alpha, background) ==
    IF alpha = 0 THEN background
    ELSE IF alpha = SampleMax THEN foreground
    ELSE Raw(foreground, alpha, background) % (SampleMax + 1)

\* Faulty variant: the alpha == 0 test is missing, every non-opaque alpha blends.
SrgbCompose_NoTransparent(foreground, alpha, background) ==
    IF alpha = SampleMax THEN foreground
    ELSE LET result == Raw(foreground, alpha, background)
         IN  IF result > SampleMax THEN SampleMax ELSE result

\* Faulty variant: the two pass-through branches are swapped.
SrgbCompose_Swapped(foreground, alpha, background) ==
    IF alpha = 0 THEN foreground
    ELSE IF alpha = SampleMax THEN background
    ELSE LET result == Raw(foreground, alpha, background)
         IN  IF result > SampleMax THEN SampleMax ELSE result

SrgbCompose(foreground, alpha, background) ==
    IF alpha = 0 THEN background
    ELSE IF alpha = SampleMax THEN foreground
    ELSE LET result == Raw(foreground, alpha, background)
         IN  IF result > SampleMax THEN SampleMax ELSE result

(***************************************************************************)
(* tests[]                                                                 *)
(***************************************************************************)

\* BUFFER_INIT8, the value the decoder's test buffers are initialised with.
BufferInit == 73

TV(f, a, b, e, d) == [fg |-> f, alpha |-> a, bg |-> b, expected |-> e, desc |-> d]

tests == <<
    TV(0, 0, 255, 255, "transparent black on white: background only"),
    TV(255, 0, 0, 0, "transparent white on black: background only"),
    TV(100, 0, 200, 200, "transparent on gray: background only"),
    TV(123, 0, 45, 45, "transparent: foreground ignored"),
    TV(255, 255, 0, 255, "opaque white on black: foreground only"),
    TV(0, 255, 255, 0, "opaque black on white: foreground only"),
    TV(100, 255, 200, 100, "opaque on gray: foreground only"),
    TV(128, 128, 128, 192, "50% gray on gray: 128 + (127*128+127)/255 = 192"),
    TV(0, 128, 255, 127, "50% black on white: 0 + (127*255+127)/255 = 127"),
    TV(255, 128, 0, 255, "50% white on black: 255 + 0 = 255"),
    TV(100, 128, 200, 200, "50% blend: 100 + (127*200+127)/255 = 200"),
    TV(134, 118, BufferInit, 173, "PoC case 1: fg > alpha"),
    TV(194, 140, BufferInit, 227, "PoC case 2: fg > alpha"),
    TV(249, 242, BufferInit, 253, "PoC case 3: fg > alpha"),
    TV(255, 1, 255, 255, "near-transparent white on white: clamp"),
    TV(200, 50, 200, IF 361 > 255 THEN 255 ELSE 361, "overflow case: clamp to 255"),
    TV(250, 10, 250, 255, "high values low alpha: clamp"),
    TV(0, 254, 255, 1, "nearly opaque: (1*255+127)/255 = 1"),
    TV(0, 253, 255, 2, "nearly opaque: (2*255+127)/255 = 2"),
    TV(0, 1, 1, 1, "nearly transparent low bg: (254*1+127)/255 = 1"),
    TV(0, 128, BufferInit, 36, "transparent on default buffer"),
    TV(128, 64, BufferInit, 183, "partial on default buffer"),
    TV(254, 1, 254, 255, "max non-overflow: 254 + 253 = 507 -> 255"),
    TV(1, 254, 1, 1, "min result with alpha: 1 + 0 = 1") >>

\* sizeof(tests) / sizeof(tests[0])
num_tests == Len(tests)

(***************************************************************************)
(* State                                                                   *)
(***************************************************************************)

VARIABLES
    arg_fg, arg_alpha,  \* a foreground and an alpha handed to srgb_compose
    results,            \* what srgb_compose returned for them, per background
    impl,               \* the compositor the driver is linked against
    pc,                 \* position of the driver
    i,                  \* run_tests: loop index (0-based, as in the C loop)
    rt_failures,        \* run_tests: failures
    vfp_fg, vfp_alpha, vfp_bg,  \* verify_formula_properties: fg, alpha, bg
    vfp_failures,       \* verify_formula_properties: failures
    prop3_fail, prop4_fail,
    main_failures,      \* main: failures
    out_fail,           \* stdout: number of "  FAIL:" lines under each property
    out_pass,           \* stdout: the properties whose "  PASS" line was printed
    status              \* exit status of the process, NotExited while running

fn_vars == <<arg_fg, arg_alpha, results>>

drv_vars == <<impl, pc, i, rt_failures, vfp_fg, vfp_alpha, vfp_bg, vfp_failures,
              prop3_fail, prop4_fail, main_failures, out_fail, out_pass, status>>

vars == <<fn_vars, drv_vars>>

\* No call made yet for the chosen (foreground, alpha).
NoResults == <<>>

NotExited == 0 - 1

\* Most mismatches an arbitrary compositor is let to produce in one run.
MaxFaults == 2

\* The driver as main() finds it on entry.
DriverStart ==
    /\ pc = "run_tests"
    /\ i = 0
    /\ rt_failures = 0
    /\ vfp_fg = 0 /\ vfp_alpha = 0 /\ vfp_bg = 0
    /\ vfp_failures = 0
    /\ prop3_fail = 0 /\ prop4_fail = 0
    /\ main_failures = 0
    /\ out_fail = [k \in 1..4 |-> 0]
    /\ out_pass = {}
    /\ status = NotExited

(***************************************************************************)
(* srgb_compose on its own: every (foreground, alpha, background)          *)
(***************************************************************************)

InitCompose ==
    /\ arg_fg \in Sample
    /\ arg_alpha \in Sample
    /\ results = NoResults
    /\ impl = "srgb_compose"
    /\ DriverStart

\* srgb_compose called with the chosen foreground and alpha on every
\* background; results[b + 1] is the value returned for background b.
ComposeAll ==
    /\ results = NoResults
    /\ results' = [k \in 1..(SampleMax + 1) |-> SrgbCompose(arg_fg, arg_alpha, k - 1)]
    /\ UNCHANGED <<arg_fg, arg_alpha>>
    /\ UNCHANGED drv_vars

NextCompose == ComposeAll

SpecCompose == InitCompose /\ [][NextCompose]_vars

Called == results # NoResults

(***************************************************************************)
(* The driver: run_tests, verify_formula_properties, main                  *)
(***************************************************************************)

\* Stride of the sampled loops of Properties 1, 2 and 4.
PropStride == 51

\* Stride of the background loop of Property 3.
Prop3BgStride == 17

Min(x, y) == IF x <= y THEN x ELSE y

\* Mismatches detected so far in the run.
Faults == rt_failures + vfp_failures

\* What one call srgb_compose(foreground, alpha, background) of the driver may
\* return: the value of srgb_compose itself, or, against an arbitrary
\* compositor, any 8-bit value or an out-of-range one.
Returned(foreground, alpha, background) ==
    IF impl = "arbitrary" /\ Faults < MaxFaults
    THEN 0..(SampleMax + 1)
    ELSE {SrgbCompose(foreground, alpha, background)}

\* Backgrounds visited by the inner loop of Property 3.
Prop3Backgrounds == {b \in Sample : b % Prop3BgStride = 0}

\* Number of "result > 255" violations the Property 3 loops over alpha and bg
\* may find for one foreground.
Prop3RowViolations(foreground) ==
    IF impl = "arbitrary"
    THEN 0..Min(Cardinality(Sample \X Prop3Backgrounds), MaxFaults - Faults)
    ELSE {Cardinality({ab \in Sample \X Prop3Backgrounds :
                          SrgbCompose(foreground, ab[1], ab[2]) > SampleMax})}

\* Number of "result < prev_result" violations the Property 4 loop over bg
\* may find for one (foreground, alpha); prev_result is always the result of
\* the previous background.
Prop4RowViolations(foreground, alpha) ==
    IF impl = "arbitrary"
    THEN 0..Min(SampleMax, MaxFaults - Faults)
    ELSE {Cardinality({b \in 1..SampleMax :
                          SrgbCompose(foreground, alpha, b)
                              < SrgbCompose(foreground, alpha, b - 1)})}

\* Faulty variant: the violation is added to failures only, prop3_fail++ is missing.
Prop3Count_Forgotten(count, v) == count

\* prop3_fail++ for each of the v violations of a row.
Prop3Count(count, v) == count + v

\* Faulty variant: main assigns the returned count instead of accumulating it.
MainAdd_Assign(failures, returned) == returned

\* failures += <returned count>, in main.
MainAdd(failures, returned) == failures + returned

\* The value main returns for its accumulated failures.
ExitStatus(failures) == IF failures = 0 THEN 0 ELSE 1

Init ==
    /\ arg_fg = 0
    /\ arg_alpha = 0
    /\ results = NoResults
    /\ impl \in {"srgb_compose", "arbitrary"}
    /\ DriverStart

\* One iteration of the loop of run_tests.
RunTest ==
    /\ pc = "run_tests"
    /\ i < num_tests
    /\ LET t == tests[i + 1]
       IN  \E result \in Returned(t.fg, t.alpha, t.bg) :
               rt_failures' = IF result # t.expected
                              THEN rt_failures + 1 ELSE rt_failures
    /\ i' = i + 1
    /\ UNCHANGED <<fn_vars, impl, pc, vfp_fg, vfp_alpha, vfp_bg, vfp_failures,
                   prop3_fail, prop4_fail, main_failures, out_fail, out_pass,
                   status>>

\* run_tests returns; main adds the count and enters
\* verify_formula_properties, which starts the loops of Property 1.
RunTestsReturn ==
    /\ pc = "run_tests"
    /\ i = num_tests
    /\ main_failures' = MainAdd(main_failures, rt_failures)
    /\ pc' = "prop1"
    /\ vfp_failures' = 0
    /\ vfp_bg' = 0 /\ vfp_fg' = 0
    /\ UNCHANGED <<fn_vars, impl, i, rt_failures, vfp_alpha, prop3_fail,
                   prop4_fail, out_fail, out_pass, status>>

\* One iteration of the inner loop of Property 1 (bg outer, fg inner).
Prop1Call ==
    /\ pc = "prop1"
    /\ vfp_bg <= SampleMax
    /\ \E result \in Returned(vfp_fg, 0, vfp_bg) :
           IF result # vfp_bg
           THEN /\ out_fail' = [out_fail EXCEPT ![1] = @ + 1]
                /\ vfp_failures' = vfp_failures + 1
           ELSE UNCHANGED <<out_fail, vfp_failures>>
    /\ IF vfp_fg + PropStride <= SampleMax
       THEN vfp_fg' = vfp_fg + PropStride /\ vfp_bg' = vfp_bg
       ELSE vfp_fg' = 0 /\ vfp_bg' = vfp_bg + PropStride
    /\ UNCHANGED <<fn_vars, impl, pc, i, rt_failures, vfp_alpha, prop3_fail,
                   prop4_fail, main_failures, out_pass, status>>

\* End of Property 1: its PASS line, then the loops of Property 2 start.
Prop1End ==
    /\ pc = "prop1"
    /\ vfp_bg > SampleMax
    /\ out_pass' = IF vfp_failures = 0 THEN out_pass \cup {1} ELSE out_pass
    /\ pc' = "prop2"
    /\ vfp_fg' = 0 /\ vfp_bg' = 0
    /\ UNCHANGED <<fn_vars, impl, i, rt_failures, vfp_alpha, vfp_failures,
                   prop3_fail, prop4_fail, main_failures, out_fail, status>>

\* One iteration of the inner loop of Property 2 (fg outer, bg inner).
Prop2Call ==
    /\ pc = "prop2"
    /\ vfp_fg <= SampleMax
    /\ \E result \in Returned(vfp_fg, SampleMax, vfp_bg) :
           IF result # vfp_fg
           THEN /\ out_fail' = [out_fail EXCEPT ![2] = @ + 1]
                /\ vfp_failures' = vfp_failures + 1
           ELSE UNCHANGED <<out_fail, vfp_failures>>
    /\ IF vfp_bg + PropStride <= SampleMax
       THEN vfp_bg' = vfp_bg + PropStride /\ vfp_fg' = vfp_fg
       ELSE vfp_bg' = 0 /\ vfp_fg' = vfp_fg + PropStride
    /\ UNCHANGED <<fn_vars, impl, pc, i, rt_failures, vfp_alpha, prop3_fail,
                   prop4_fail, main_failures, out_pass, status>>

\* End of Property 2: its PASS line (on the shared failures counter), then
\* the block of Property 3 is entered with prop3_fail = 0.
Prop2End ==
    /\ pc = "prop2"
    /\ vfp_fg > SampleMax
    /\ out_pass' = IF vfp_failures = 0 THEN out_pass \cup {2} ELSE out_pass
    /\ pc' = "prop3"
    /\ prop3_fail' = 0
    /\ vfp_fg' = 0 /\ vfp_alpha' = 0 /\ vfp_bg' = 0
    /\ UNCHANGED <<fn_vars, impl, i, rt_failures, vfp_failures, prop4_fail,
                   main_failures, out_fail, status>>

\* One iteration of the outer loop of Property 3: the loops over alpha and
\* the sampled backgrounds for one foreground.
Prop3Row ==
    /\ pc = "prop3"
    /\ vfp_fg <= SampleMax
    /\ \E v \in Prop3RowViolations(vfp_fg) :
           /\ out_fail' = [out_fail EXCEPT ![3] = @ + v]
           /\ prop3_fail' = Prop3Count(prop3_fail, v)
           /\ vfp_failures' = vfp_failures + v
    /\ vfp_fg' = vfp_fg + 1
    /\ UNCHANGED <<fn_vars, impl, pc, i, rt_failures, vfp_alpha, vfp_bg,
                   prop4_fail, main_failures, out_pass, status>>

\* End of Property 3: its PASS line, then the block of Property 4 is entered.
Prop3End ==
    /\ pc = "prop3"
    /\ vfp_fg > SampleMax
    /\ out_pass' = IF prop3_fail = 0 THEN out_pass \cup {3} ELSE out_pass
    /\ pc' = "prop4"
    /\ prop4_fail' = 0
    /\ vfp_fg' = 0 /\ vfp_alpha' = 1 /\ vfp_bg' = 0
    /\ UNCHANGED <<fn_vars, impl, i, rt_failures, vfp_failures, prop3_fail,
                   main_failures, out_fail, status>>

\* One iteration of the alpha loop of Property 4: the scan over every
\* background for one (foreground, alpha).
Prop4Row ==
    /\ pc = "prop4"
    /\ vfp_fg <= SampleMax
    /\ \E v \in Prop4RowViolations(vfp_fg, vfp_alpha) :
           /\ out_fail' = [out_fail EXCEPT ![4] = @ + v]
           /\ prop4_fail' = prop4_fail + v
           /\ vfp_failures' = vfp_failures + v
    /\ IF vfp_alpha + PropStride < SampleMax
       THEN vfp_alpha' = vfp_alpha + PropStride /\ vfp_fg' = vfp_fg
       ELSE vfp_alpha' = 1 /\ vfp_fg' = vfp_fg + PropStride
    /\ UNCHANGED <<fn_vars, impl, pc, i, rt_failures, vfp_bg, prop3_fail,
                   main_failures, out_pass, status>>

\* End of Property 4: its PASS line.
Prop4End ==
    /\ pc = "prop4"
    /\ vfp_fg > SampleMax
    /\ out_pass' = IF prop4_fail = 0 THEN out_pass \cup {4} ELSE out_pass
    /\ pc' = "vfp_return"
    /\ UNCHANGED <<fn_vars, impl, i, rt_failures, vfp_fg, vfp_alpha, vfp_bg,
                   vfp_failures, prop3_fail, prop4_fail, main_failures,
                   out_fail, status>>

\* verify_formula_properties returns; main adds the count.
VerifyReturn ==
    /\ pc = "vfp_return"
    /\ main_failures' = MainAdd(main_failures, vfp_failures)
    /\ pc' = "main_end"
    /\ UNCHANGED <<fn_vars, impl, i, rt_failures, vfp_fg, vfp_alpha, vfp_bg,
                   vfp_failures, prop3_fail, prop4_fail, out_fail, out_pass,
                   status>>

\* main tests the accumulated count once and returns.
MainExit ==
    /\ pc = "main_end"
    /\ status' = ExitStatus(main_failures)
    /\ pc' = "exit"
    /\ UNCHANGED <<fn_vars, impl, i, rt_failures, vfp_fg, vfp_alpha, vfp_bg,
                   vfp_failures, prop3_fail, prop4_fail, main_failures,
                   out_fail, out_pass>>

Next ==
    \/ RunTest
    \/ RunTestsReturn
    \/ Prop1Call
    \/ Prop1End
    \/ Prop2Call
    \/ Prop2End
    \/ Prop3Row
    \/ Prop3End
    \/ Prop4Row
    \/ Prop4End
    \/ VerifyReturn
    \/ MainExit

Spec == Init /\ [][Next]_vars

(***************************************************************************)
(* Properties of srgb_compose (checked under SpecCompose)                  *)
(***************************************************************************)

\* The value returned for background b in the current state.
ResultAt(b) == results[b + 1]

Partial == 1..(SampleMax - 1)

\* C1 (range closure): for every foreground, alpha and background in
\* 0..255, the value srgb_compose returns is in 0..255.
RangeClosure ==
    Called => \A b \in Sample : ResultAt(b) \in Sample

\* A call whose unclamped sum (254 + 253 = 507) exceeds 255 returned 255.
RangeClosureWitness ==
    /\ Called
    /\ arg_fg = 254 /\ arg_alpha = 1
    /\ Raw(arg_fg, arg_alpha, 254) = 507
    /\ ResultAt(254) = SampleMax

\* C2 (transparency identity): with alpha 0 the value returned is the
\* background, whatever the foreground.
TransparencyIdentity ==
    (Called /\ arg_alpha = 0) => \A b \in Sample : ResultAt(b) = b

\* A transparent call with a foreground different from the background.
TransparencyWitness ==
    /\ Called
    /\ arg_alpha = 0 /\ arg_fg = 123
    /\ ResultAt(45) = 45

\* C3 (opacity identity): with alpha 255 the value returned is the
\* foreground, whatever the background.
OpacityIdentity ==
    (Called /\ arg_alpha = SampleMax) => \A b \in Sample : ResultAt(b) = arg_fg

\* An opaque call with a background different from the foreground.
OpacityWitness ==
    /\ Called
    /\ arg_alpha = SampleMax /\ arg_fg = 100
    /\ ResultAt(200) = 100

Descent == 0 - 1

RECURSIVE ScanBlock(_, _, _, _)
\* r[k..last] scanned with `highest`, the largest element before position k:
\* Descent if some element is below an element before it, else the largest
\* element up to position last.
ScanBlock(r, k, last, highest) ==
    IF highest = Descent \/ k > last THEN highest
    ELSE IF r[k] < highest THEN Descent
    ELSE ScanBlock(r, k + 1, last, IF r[k] > highest THEN r[k] ELSE highest)

RECURSIVE ScanFrom(_, _, _)
\* The same scan over r[k..Len(r)], sixteen elements at a time.
ScanFrom(r, k, highest) ==
    IF k > Len(r) THEN highest
    ELSE ScanFrom(r, k + 16, ScanBlock(r, k, Min(k + 15, Len(r)), highest))

\* C4 (background monotonicity): for a fixed foreground and a fixed alpha in
\* 1..254, b1 <= b2 implies compose(f, a, b1) <= compose(f, a, b2): the value
\* returned for each background is at least the largest value returned for
\* the backgrounds below it.
BackgroundMonotonicity ==
    (Called /\ arg_alpha \in Partial) => ScanFrom(results, 1, 0) # Descent

\* A curve that rises and is then flattened by the clamp.
MonotonicityWitness ==
    /\ Called
    /\ arg_fg = 200 /\ arg_alpha = 50
    /\ ResultAt(0) = 200
    /\ ResultAt(10) < ResultAt(60)
    /\ ResultAt(200) = SampleMax
    /\ ResultAt(SampleMax) = SampleMax

\* C7 (round to nearest): for alpha in 1..254 the background term
\* q = ((255 - alpha) * b + 127) div 255 that srgb_compose adds (it is the
\* value returned when the foreground is 0) is the integer nearest to
\* (255 - alpha) * b / 255: |255 * q - (255 - alpha) * b| <= 127, and q is the
\* floor quotient plus one exactly when the remainder is at least 128.
RoundToNearest ==
    (Called /\ arg_fg = 0 /\ arg_alpha \in Partial) =>
        \A b \in Sample :
            LET n == (SampleMax - arg_alpha) * b
                q == ResultAt(b)
            IN  /\ q = BackgroundTerm(arg_alpha, b)
                /\ SampleMax * q - n <= RoundTerm
                /\ n - SampleMax * q <= RoundTerm
                /\ q = (n \div SampleMax)
                         + (IF n % SampleMax >= RoundTerm + 1 THEN 1 ELSE 0)

\* A term rounded up (127 * 128 = 63 * 255 + 191) and one rounded down
\* (127 * 73 = 36 * 255 + 91).
RoundToNearestWitness ==
    /\ Called
    /\ arg_fg = 0 /\ arg_alpha = 128
    /\ ResultAt(128) = 64
    /\ (127 * 128) \div SampleMax = 63
    /\ ResultAt(BufferInit) = 36

\* C10 (the clamp acts only on malformed input): for alpha in 1..254 and a
\* foreground not above alpha, the unclamped sum is at most 255 and is the
\* value returned; so whenever the unclamped sum exceeds 255 the foreground
\* exceeds alpha.
ClampOnlyMalformed ==
    (Called /\ arg_alpha \in Partial /\ arg_fg <= arg_alpha) =>
        \A b \in Sample :
            LET raw == Raw(arg_fg, arg_alpha, b)
            IN  raw <= SampleMax /\ ResultAt(b) = raw

\* A well-formed call that reaches 255 exactly without the clamp acting.
ClampOnlyMalformedWitness ==
    /\ Called
    /\ arg_fg = 1 /\ arg_alpha = 1
    /\ Raw(arg_fg, arg_alpha, SampleMax) = SampleMax
    /\ ResultAt(SampleMax) = SampleMax

(***************************************************************************)
(* Properties of the driver (checked under Spec)                           *)
(***************************************************************************)

\* C5 (literal vectors): srgb_compose returns the expected value of each of
\* the 24 vectors of tests[], so run_tests counts and returns 0 failures; in
\* particular the seven vectors quoted below are in the table.
LiteralVectors ==
    /\ num_tests = 24
    /\ {<<128, 128, 128, 192>>, <<0, 128, 255, 127>>, <<255, 128, 0, 255>>,
        <<134, 118, 73, 173>>, <<254, 1, 254, 255>>, <<0, 254, 255, 1>>,
        <<0, 253, 255, 2>>}
           \subseteq {<<tests[k].fg, tests[k].alpha, tests[k].bg, tests[k].expected>> :
                         k \in 1..num_tests}
    /\ impl = "srgb_compose" =>
           /\ rt_failures = 0
           /\ pc # "run_tests" => main_failures = 0

\* run_tests has run over the whole table against srgb_compose and returned.
LiteralVectorsWitness ==
    /\ impl = "srgb_compose"
    /\ pc = "prop1"
    /\ i = 24
    /\ rt_failures = 0

\* C6 (exit status): main exits with status 0 if and only if the counts
\* returned by run_tests and by verify_formula_properties sum to 0, and with
\* status 1 otherwise, whatever the compositor returned.
ExitStatusIffNoFailures ==
    pc = "exit" =>
        /\ status \in {0, 1}
        /\ status = 0 <=> rt_failures + vfp_failures = 0

\* A run that exits 1 on a mismatch of Batch A alone, Batch B being clean.
ExitStatusWitness ==
    /\ pc = "exit"
    /\ rt_failures = 1 /\ vfp_failures = 0
    /\ status = 1

\* C8 (property-level PASS lines): a property's PASS line is printed only if
\* no FAIL line was printed in that property's own sweep.
PassOnlyIfNoViolation ==
    \A k \in out_pass : out_fail[k] = 0

\* Property 3 found a violation and printed no PASS line, while the other
\* three properties printed theirs.
PassOnlyIfNoViolationWitness ==
    /\ pc = "vfp_return"
    /\ out_fail[3] > 0
    /\ out_pass = {1, 2, 4}

\* C9 (sentinel coverage): once run_tests has gone through tests[], it has
\* run a vector with background 73 and alpha 0, and a vector with background
\* 73 and an alpha in 1..254.
SentinelCoverage ==
    i = num_tests =>
        /\ \E k \in 1..i :
               tests[k].bg = BufferInit /\ tests[k].alpha = 0
        /\ \E k \in 1..i :
               tests[k].bg = BufferInit /\ tests[k].alpha \in Partial

====
